---- MODULE Spec2Model ----
(***************************************************************************)
(* loghelper: the level order, the configuration record and its INI        *)
(* loader, the three backends (spdlog, zlog, fallback), the LogEngine      *)
(* facade and the call-site dispatch, as a state machine of threads that   *)
(* call the public operations.  One step of a thread is one access to      *)
(* shared state (an atomic load or store, a plain read or write of a       *)
(* member, a call into the delegate library, a write on stderr).           *)
(***************************************************************************)
EXTENDS Integers, Sequences, FiniteSets, TLC

\* ------------------------------------------------------------------ bounds
NumThreads == 2
\* the calls one thread makes one after the other
MaxCalls == 4
\* the calls made in all when several threads run
MaxConcCalls == 2
\* the lines of a configuration file
MaxIniLines == 2
\* how far below kTrace and above kOff the integers given as a level go
LevelSlack == 3

\* ------------------------------------------------------------------ levels
kTrace == 0
kDebug == 1
kInfo == 2
kWarn == 3
kError == 4
kFatal == 5
kOff == 6

Level == kTrace .. kOff

kNames == <<"TRACE", "DEBUG", "INFO", "WARN", "ERROR", "FATAL", "OFF">>

\* a variant without the test of the lower end of the table
LevelToString_UpperOnly(lv) ==
  LET idx == lv IN
  IF idx <= 6 THEN kNames[IF idx >= 0 THEN idx + 1 ELSE 1] ELSE "?"

LevelToString(lv) ==
  LET idx == lv IN
  IF idx >= 0 /\ idx <= 6 THEN kNames[idx + 1] ELSE "?"

\* LOGHELPER_COMPILE_LEVEL when the build does not define it
DefaultCompileLevel == kTrace

\* ----------------------------------------------------------- configuration
\* Text is a sequence of characters.
LogConfig ==
  [ console_level    |-> kInfo,
    file_level       |-> kDebug,
    syslog_level     |-> kInfo,
    file_max_size_mb |-> 100,
    file_max_files   |-> 5,
    file_min_free_mb |-> 2000,
    file_path        |-> <<"l", "o", "g", "s", "/", "a", "p", "p">>,
    syslog_addr      |-> <<>>,
    syslog_port      |-> 514,
    syslog_ident     |-> <<"l", "o", "g", "h", "e", "l", "p", "e", "r">>,
    enable_console   |-> TRUE,
    enable_file      |-> TRUE,
    enable_syslog    |-> FALSE ]

\* ------------------------------------------------------------- INI loader
IsBlank(c) == c = " " \/ c = "\t"
IsTrail(c) == c = " " \/ c = "\t" \/ c = "\r" \/ c = "\n"

\* where the scan over the leading blanks of s[lo..hi] stops: the index of the
\* first character that is not a blank, hi + 1 when all are (the halves of the
\* range are scanned in turn)
RECURSIVE LeadFrom(_, _, _)
LeadFrom(s, lo, hi) ==
  IF lo > hi THEN lo
  ELSE IF lo = hi THEN (IF IsBlank(s[lo]) THEN lo + 1 ELSE lo)
  ELSE LET mid == (lo + hi) \div 2
           l   == LeadFrom(s, lo, mid)
       IN IF l <= mid THEN l ELSE LeadFrom(s, mid + 1, hi)

SkipLead(s) == SubSeq(s, LeadFrom(s, 1, Len(s)), Len(s))

\* where the scan over the trailing white space of s[lo..hi] stops: the length
\* left, lo - 1 when all of it is white space
RECURSIVE TrailTo(_, _, _)
TrailTo(s, lo, hi) ==
  IF lo > hi THEN hi
  ELSE IF lo = hi THEN (IF IsTrail(s[lo]) THEN lo - 1 ELSE lo)
  ELSE LET mid == (lo + hi) \div 2
           r   == TrailTo(s, mid + 1, hi)
       IN IF r > mid THEN r ELSE TrailTo(s, lo, mid)

DropTrail(s) == SubSeq(s, 1, TrailTo(s, 1, Len(s)))

TrimInPlace(s) == DropTrail(SkipLead(s))

\* the index of the first c in s[lo..hi], 0 when there is none
RECURSIVE StrChrFrom(_, _, _, _)
StrChrFrom(s, c, lo, hi) ==
  IF lo > hi THEN 0
  ELSE IF lo = hi THEN (IF s[lo] = c THEN lo ELSE 0)
  ELSE LET mid == (lo + hi) \div 2
           l   == StrChrFrom(s, c, lo, mid)
       IN IF l # 0 THEN l ELSE StrChrFrom(s, c, mid + 1, hi)

\* strchr(line, c): index of the first c, 0 when there is none
StrChr(s, c) == StrChrFrom(s, c, 1, Len(s))

Digits == <<"0", "1", "2", "3", "4", "5", "6", "7", "8", "9">>
IsDigit(c) == \E d \in 1..10 : Digits[d] = c
DigitVal(c) == (CHOOSE d \in 1..10 : Digits[d] = c) - 1
IsSpace(c) == c = " " \/ c = "\t" \/ c = "\r" \/ c = "\n"

RECURSIVE AtoiDigits(_, _)
AtoiDigits(s, acc) ==
  IF s # <<>> /\ IsDigit(Head(s))
  THEN AtoiDigits(Tail(s), acc * 10 + DigitVal(Head(s)))
  ELSE acc

RECURSIVE SkipSpace(_)
SkipSpace(s) == IF s # <<>> /\ IsSpace(Head(s)) THEN SkipSpace(Tail(s)) ELSE s

\* atoi: optional white space, optional sign, then the leading digits; text
\* without leading digits is 0
Atoi(s) ==
  LET r == SkipSpace(s) IN
  IF r = <<>> THEN 0
  ELSE IF Head(r) = "-" THEN 0 - AtoiDigits(Tail(r), 0)
  ELSE IF Head(r) = "+" THEN AtoiDigits(Tail(r), 0)
  ELSE AtoiDigits(r, 0)

\* snprintf(dst, cap, "%s", val): at most cap - 1 characters are kept
Snprintf(val, cap) ==
  IF Len(val) > cap - 1 THEN SubSeq(val, 1, cap - 1) ELSE val

FilePathCap == 256
SyslogAddrCap == 64
SyslogIdentCap == 64

\* the key names strcmp compares with
Key ==
  [ ConsoleLevel |->
      <<"C", "o", "n", "s", "o", "l", "e", "L", "e", "v", "e", "l">>,
    ConsoleLogLevel |->
      <<"C", "o", "n", "s", "o", "l", "e", "L", "o", "g", "L", "e", "v", "e", "l">>,
    FileLevel |->
      <<"F", "i", "l", "e", "L", "e", "v", "e", "l">>,
    FileLogLevel |->
      <<"F", "i", "l", "e", "L", "o", "g", "L", "e", "v", "e", "l">>,
    SyslogLevel |->
      <<"S", "y", "s", "l", "o", "g", "L", "e", "v", "e", "l">>,
    SysLogLevel |->
      <<"S", "y", "s", "L", "o", "g", "L", "e", "v", "e", "l">>,
    FileMaxSizeMB |->
      <<"F", "i", "l", "e", "M", "a", "x", "S", "i", "z", "e", "M", "B">>,
    FilelogMaxSize |->
      <<"F", "i", "l", "e", "l", "o", "g", "M", "a", "x", "S", "i", "z", "e">>,
    FileMaxFiles |->
      <<"F", "i", "l", "e", "M", "a", "x", "F", "i", "l", "e", "s">>,
    FileMinFreeSpaceMB |->
      <<"F", "i", "l", "e", "M", "i", "n", "F", "r", "e", "e", "S", "p", "a", "c", "e", "M", "B">>,
    FilelogMinFreeSpace |->
      <<"F", "i", "l", "e", "l", "o", "g", "M", "i", "n", "F", "r", "e", "e", "S", "p", "a", "c", "e">>,
    FilePath |->
      <<"F", "i", "l", "e", "P", "a", "t", "h">>,
    SyslogAddr |->
      <<"S", "y", "s", "l", "o", "g", "A", "d", "d", "r">>,
    SysLogAddr |->
      <<"S", "y", "s", "L", "o", "g", "A", "d", "d", "r">>,
    SyslogPort |->
      <<"S", "y", "s", "l", "o", "g", "P", "o", "r", "t">>,
    SysLogPort |->
      <<"S", "y", "s", "L", "o", "g", "P", "o", "r", "t">>,
    SyslogIdent |->
      <<"S", "y", "s", "l", "o", "g", "I", "d", "e", "n", "t">>,
    EnableConsole |->
      <<"E", "n", "a", "b", "l", "e", "C", "o", "n", "s", "o", "l", "e">>,
    EnableFile |->
      <<"E", "n", "a", "b", "l", "e", "F", "i", "l", "e">>,
    EnableSyslog |->
      <<"E", "n", "a", "b", "l", "e", "S", "y", "s", "l", "o", "g">> ]

\* a variant whose address keys leave the enable flag alone
ApplyKey_AddrOnly(cfg, key, val) ==
  IF key = Key.ConsoleLevel \/ key = Key.ConsoleLogLevel
    THEN [cfg EXCEPT !.console_level = Atoi(val)]
  ELSE IF key = Key.FileLevel \/ key = Key.FileLogLevel
    THEN [cfg EXCEPT !.file_level = Atoi(val)]
  ELSE IF key = Key.SyslogLevel \/ key = Key.SysLogLevel
    THEN [cfg EXCEPT !.syslog_level = Atoi(val)]
  ELSE IF key = Key.FileMaxSizeMB \/ key = Key.FilelogMaxSize
    THEN [cfg EXCEPT !.file_max_size_mb = Atoi(val)]
  ELSE IF key = Key.FileMaxFiles
    THEN [cfg EXCEPT !.file_max_files = Atoi(val)]
  ELSE IF key = Key.FileMinFreeSpaceMB \/ key = Key.FilelogMinFreeSpace
    THEN [cfg EXCEPT !.file_min_free_mb = Atoi(val)]
  ELSE IF key = Key.FilePath
    THEN [cfg EXCEPT !.file_path = Snprintf(val, FilePathCap)]
  ELSE IF key = Key.SyslogAddr \/ key = Key.SysLogAddr
    THEN [cfg EXCEPT !.syslog_addr = Snprintf(val, SyslogAddrCap)]
  ELSE IF key = Key.SyslogPort \/ key = Key.SysLogPort
    THEN [cfg EXCEPT !.syslog_port = Atoi(val)]
  ELSE IF key = Key.SyslogIdent
    THEN [cfg EXCEPT !.syslog_ident = Snprintf(val, SyslogIdentCap)]
  ELSE IF key = Key.EnableConsole
    THEN [cfg EXCEPT !.enable_console = (Atoi(val) # 0)]
  ELSE IF key = Key.EnableFile
    THEN [cfg EXCEPT !.enable_file = (Atoi(val) # 0)]
  ELSE IF key = Key.EnableSyslog
    THEN [cfg EXCEPT !.enable_syslog = (Atoi(val) # 0)]
  ELSE cfg

ApplyKey(cfg, key, val) ==
  IF key = Key.ConsoleLevel \/ key = Key.ConsoleLogLevel
    THEN [cfg EXCEPT !.console_level = Atoi(val)]
  ELSE IF key = Key.FileLevel \/ key = Key.FileLogLevel
    THEN [cfg EXCEPT !.file_level = Atoi(val)]
  ELSE IF key = Key.SyslogLevel \/ key = Key.SysLogLevel
    THEN [cfg EXCEPT !.syslog_level = Atoi(val)]
  ELSE IF key = Key.FileMaxSizeMB \/ key = Key.FilelogMaxSize
    THEN [cfg EXCEPT !.file_max_size_mb = Atoi(val)]
  ELSE IF key = Key.FileMaxFiles
    THEN [cfg EXCEPT !.file_max_files = Atoi(val)]
  ELSE IF key = Key.FileMinFreeSpaceMB \/ key = Key.FilelogMinFreeSpace
    THEN [cfg EXCEPT !.file_min_free_mb = Atoi(val)]
  ELSE IF key = Key.FilePath
    THEN [cfg EXCEPT !.file_path = Snprintf(val, FilePathCap)]
  ELSE IF key = Key.SyslogAddr \/ key = Key.SysLogAddr
    THEN [cfg EXCEPT !.syslog_addr = Snprintf(val, SyslogAddrCap),
                     !.enable_syslog = (val # <<>>)]
  ELSE IF key = Key.SyslogPort \/ key = Key.SysLogPort
    THEN [cfg EXCEPT !.syslog_port = Atoi(val)]
  ELSE IF key = Key.SyslogIdent
    THEN [cfg EXCEPT !.syslog_ident = Snprintf(val, SyslogIdentCap)]
  ELSE IF key = Key.EnableConsole
    THEN [cfg EXCEPT !.enable_console = (Atoi(val) # 0)]
  ELSE IF key = Key.EnableFile
    THEN [cfg EXCEPT !.enable_file = (Atoi(val) # 0)]
  ELSE IF key = Key.EnableSyslog
    THEN [cfg EXCEPT !.enable_syslog = (Atoi(val) # 0)]
  ELSE cfg

\* one iteration of the fgets loop, on the characters fgets put in line[]
ParseLine(cfg, raw) ==
  LET line == TrimInPlace(raw)
      eq   == StrChr(line, "=")
  IN IF line = <<>> \/ Head(line) = "#" \/ Head(line) = ";" \/ Head(line) = "["
       THEN cfg
     ELSE IF eq = 0 THEN cfg
     ELSE ApplyKey(cfg, TrimInPlace(SubSeq(line, 1, eq - 1)),
                        TrimInPlace(SubSeq(line, eq + 1, Len(line))))

\* char line[512]
LineBufSize == 512

\* what the successive fgets calls return for one line of the file: a line
\* longer than the buffer comes in pieces of at most LineBufSize - 1 characters
RECURSIVE Fgets(_)
Fgets(text) ==
  IF Len(text) <= LineBufSize - 1 THEN <<text>>
  ELSE <<SubSeq(text, 1, LineBufSize - 1)>>
         \o Fgets(SubSeq(text, LineBufSize, Len(text)))

RECURSIVE ParsePieces(_, _)
ParsePieces(cfg, pieces) ==
  IF pieces = <<>> THEN cfg
  ELSE ParsePieces(ParseLine(cfg, Head(pieces)), Tail(pieces))

\* the loop over the lines of the file
RECURSIVE ParseLines(_, _)
ParseLines(cfg, lines) ==
  IF lines = <<>> THEN cfg
  ELSE ParseLines(ParsePieces(cfg, Fgets(Head(lines))), Tail(lines))

\* A path stands for what fopen finds there: whether a file can be opened,
\* and its lines.
MissingFile == [open |-> FALSE, lines |-> << >>]

LegacyFile ==
  [open |-> TRUE,
   lines |-> << <<"[", "S", "]", "\n">>,
                Key.ConsoleLogLevel \o <<" ", "=", " ", "4", "\n">>,
                Key.SysLogAddr \o <<" ", "=", " ", "h", "\n">> >>]

PlainFile ==
  [open |-> TRUE,
   lines |-> << <<"#", "c", "\n">>,
                Key.ConsoleLevel \o <<" ", "=", " ", "1", "\n">>,
                Key.EnableFile \o <<"=", "0", "\r", "\n">> >>]

\* the paths LogEngine::Init(path) is called with
Paths == {MissingFile, LegacyFile, PlainFile}

CanOpen(path) == path.open

FileLines(path) == path.lines

\* a variant that clears the record before it opens the file
ParseIniFile_ClearsFirst(path, cfg) ==
  IF ~CanOpen(path) THEN <<FALSE, LogConfig>>
  ELSE <<TRUE, ParseLines(LogConfig, FileLines(path))>>

\* ParseIniFile(path, cfg): <<returned flag, cfg afterwards>>
ParseIniFile(path, cfg) ==
  IF ~CanOpen(path) THEN <<FALSE, cfg>>
  ELSE <<TRUE, ParseLines(cfg, FileLines(path))>>

\* ------------------------------------------------------------------ state
Backends == {"spdlog", "zlog", "fallback"}
Threads == 1 .. NumThreads

VARIABLES
  ndebug,   \* whether this build defines NDEBUG
  compile_level, \* LOGHELPER_COMPILE_LEVEL of this build
  unit,     \* a call of a function of the header on its own: inputs, result
  backend,  \* LOGHELPER_BACKEND: the primary backend of this build
  active,   \* the threads of the program
  inited,   \* inited_ of each backend instance
  cfg_,     \* cfg_ of each backend instance
  logger,   \* spdlog's registry: the default logger
  cat_,     \* zlog backend: cat_ (0 is nullptr, else the zlog_init it is from)
  zenv,     \* zlog library: 0 when not initialised, else its zlog_init
  mtx_,     \* fallback backend: owner of mtx_, 0 when free
  out,      \* stderr: the pieces written since the last end of line
  proc,     \* "running", or how the process ended
  th,       \* per thread: position and locals of the call it is in
  ncalls,   \* calls started so far
  inits,    \* LogEngine::Init calls that have returned
  lastInit, \* the configuration of the last of them
  lastOp,   \* the last call that returned
  snap      \* the backend state when it returned

vars == <<ndebug, compile_level, unit, backend, active, inited, cfg_, logger, cat_, zenv, mtx_, out, proc,
          th, ncalls, inits, lastInit, lastOp, snap>>

\* spdlog levels: trace = 0 .. critical = 5, off = 6
ToSpdLevel(lv) == IF lv \in kTrace .. kFatal THEN lv ELSE 6

NullLogger == [id |-> -1, level |-> 6, sinks |-> {}]
\* the logger spdlog's registry creates for itself: stdout, level info
LibLogger == [id |-> 0, level |-> 2, sinks |-> {[dest |-> "stdout", level |-> 0]}]

Idle ==
  [pc |-> "idle", op |-> "none", lv |-> 0, arg |-> LogConfig, rec |-> 0,
   raw |-> NullLogger, got |-> {}, lazy |-> FALSE, failed |-> {},
   retB |-> FALSE, retC |-> LogConfig, path |-> MissingFile,
   site |-> "none", cond |-> TRUE, evald |-> {},
   msgLen |-> 0, tagLen |-> 0, locLen |-> 0, msg |-> 0, sent |-> 0]

BackendState == <<inited, cfg_, logger, cat_, zenv>>

\* the configurations callers pass to LogEngine::Init(cfg)
UserCfgs ==
  {[LogConfig EXCEPT !.console_level = T, !.enable_file = FALSE] : T \in Level}
  \cup {LogConfig,
        [LogConfig EXCEPT !.enable_console = FALSE, !.enable_syslog = TRUE,
                          !.file_path = <<>>]}

InitCommon ==
  /\ backend \in Backends
  /\ inited = [b \in Backends |-> FALSE]
  /\ cfg_ = [b \in Backends |-> LogConfig]
  /\ logger = LibLogger
  /\ cat_ = 0
  /\ zenv = 0
  /\ mtx_ = 0
  /\ out = <<>>
  /\ proc = "running"
  /\ th = [t \in Threads |-> Idle]
  /\ ncalls = 0
  /\ inits = 0
  /\ lastInit = LogConfig
  /\ lastOp = "none"
  /\ snap = <<[b \in Backends |-> FALSE], [b \in Backends |-> LogConfig],
              LibLogger, 0, 0>>

\* no function is called on its own
NoUnit ==
  [fn |-> "none", path |-> MissingFile, cfg0 |-> LogConfig, lv |-> 0,
   done |-> FALSE, retB |-> FALSE, cfg |-> LogConfig, name |-> ""]

\* a debug build with the default compile level
InitBuild == ndebug = FALSE /\ compile_level = DefaultCompileLevel /\ unit = NoUnit

Init == InitCommon /\ InitBuild /\ active = Threads
InitSeq == InitCommon /\ InitBuild /\ active = {1}
InitLog == InitCommon /\ InitBuild /\ active = Threads /\ backend = "fallback"

At(t, p) == proc = "running" /\ t \in active /\ th[t].pc = p
CallBudget == IF Cardinality(active) = 1 THEN MaxCalls ELSE MaxConcCalls
CanCall(t) == At(t, "idle") /\ ncalls < CallBudget

\* the severities LogDispatch is called with: every one when one thread runs;
\* when several run, one below and one above the default console threshold
LogLevels == IF Cardinality(active) = 1 THEN Level ELSE {kDebug, kWarn}

Set(t, r) == th' = [th EXCEPT ![t] = r]
Goto(t, p) == th' = [th EXCEPT ![t].pc = p]

Begin(t, o, p) == [Idle EXCEPT !.op = o, !.pc = p, !.rec = ncalls + 1]

\* stderr after one more piece: a piece that ends a line closes the line
Emit(piece) ==
  IF out # <<>> /\ out[Len(out)].part \in {"tail", "line"}
  THEN <<piece>> ELSE Append(out, piece)

\* ------------------------------------------------------ LogEngine::Init
\* Init(const LogConfig&): entered with the caller's configuration
EngineInitCfg(t) ==
  /\ CanCall(t)
  /\ \E c \in UserCfgs : Set(t, [Begin(t, "Init", "p_cfg") EXCEPT !.arg = c])
  /\ ncalls' = ncalls + 1
  /\ UNCHANGED <<ndebug, compile_level, unit, backend, active, inited, cfg_, logger, cat_, zenv, mtx_, out,
                 proc, inits, lastInit, lastOp, snap>>

\* the configuration Init() builds
DefaultInitCfg == [LogConfig EXCEPT !.enable_file = FALSE]

\* Init(): defaults, then Init(cfg)
EngineInitDefault(t) ==
  /\ CanCall(t)
  /\ Set(t, [Begin(t, "InitDefault", "p_cfg") EXCEPT !.arg = DefaultInitCfg])
  /\ ncalls' = ncalls + 1
  /\ UNCHANGED <<ndebug, compile_level, unit, backend, active, inited, cfg_, logger, cat_, zenv, mtx_, out,
                 proc, inits, lastInit, lastOp, snap>>

\* Init(const char*): load the file over a default record, report a file that
\* cannot be opened on stderr, then Init(cfg)
EngineInitPath(t) ==
  /\ CanCall(t)
  /\ \E path \in Paths :
       LET r == ParseIniFile(path, LogConfig) IN
       /\ Set(t, [Begin(t, "InitPath", "p_cfg") EXCEPT !.arg = r[2],
                                                       !.retB = TRUE,
                                                       !.path = path])
       /\ out' = IF r[1] THEN out ELSE Emit([rec |-> 0, part |-> "line"])
  /\ ncalls' = ncalls + 1
  /\ UNCHANGED <<ndebug, compile_level, unit, backend, active, inited, cfg_, logger, cat_, zenv, mtx_,
                 proc, inits, lastInit, lastOp, snap>>

\* ----------------------------------------------- fallback::Backend::Init
\* the instance a fallback Init step works on: the primary one in a fallback
\* build, and the safety net of every build
FbInitAt(t, primaryPc, netPc) ==
  \/ (backend = "fallback" /\ At(t, primaryPc))
  \/ At(t, netPc)

FallbackInit_StoreCfg(t) ==
  /\ FbInitAt(t, "p_cfg", "f_cfg")
  /\ cfg_' = [cfg_ EXCEPT !["fallback"] = th[t].arg]
  /\ Goto(t, IF th[t].pc = "p_cfg" THEN "p_store" ELSE "f_store")
  /\ UNCHANGED <<ndebug, compile_level, unit, backend, active, inited, logger, cat_, zenv, mtx_, out, proc,
                 ncalls, inits, lastInit, lastOp, snap>>

\* where a thread goes when LogEngine::Init(cfg) is over: back to the caller,
\* or on to Log when LogDispatch made the call
AfterInit(t) == IF th[t].op = "LogDispatch" THEN "log" ELSE "ret"

FallbackInit_StoreInited(t) ==
  /\ FbInitAt(t, "p_store", "f_store")
  /\ inited' = [inited EXCEPT !["fallback"] = TRUE]
  /\ Goto(t, IF th[t].pc = "p_store" THEN "f_cfg" ELSE AfterInit(t))
  /\ UNCHANGED <<ndebug, compile_level, unit, backend, active, cfg_, logger, cat_, zenv, mtx_, out, proc,
                 ncalls, inits, lastInit, lastOp, snap>>

\* ------------------------------------------ spdlog_backend::Backend::Init
\* a variant that keeps the first configuration of an initialised backend
SpdlogInit_StoreCfg_OnceOnly(t) ==
  /\ backend = "spdlog" /\ At(t, "p_cfg")
  /\ cfg_' = IF inited["spdlog"] THEN cfg_
             ELSE [cfg_ EXCEPT !["spdlog"] = th[t].arg]
  /\ Goto(t, "spd_sinks")
  /\ UNCHANGED <<ndebug, compile_level, unit, backend, active, inited, logger, cat_, zenv, mtx_, out, proc,
                 ncalls, inits, lastInit, lastOp, snap>>

SpdlogInit_StoreCfg(t) ==
  /\ backend = "spdlog" /\ At(t, "p_cfg")
  /\ cfg_' = [cfg_ EXCEPT !["spdlog"] = th[t].arg]
  /\ Goto(t, "spd_sinks")
  /\ UNCHANGED <<ndebug, compile_level, unit, backend, active, inited, logger, cat_, zenv, mtx_, out, proc,
                 ncalls, inits, lastInit, lastOp, snap>>

\* the sinks Init builds from its argument
SinksOf(cfg) ==
  (IF cfg.enable_console
     THEN {[dest |-> "console", level |-> ToSpdLevel(cfg.console_level)]}
     ELSE {})
  \cup (IF cfg.enable_file /\ cfg.file_path # <<>>
     THEN {[dest |-> "file", level |-> ToSpdLevel(cfg.file_level)]}
     ELSE {})
  \cup (IF cfg.enable_syslog
     THEN {[dest |-> "syslog", level |-> ToSpdLevel(cfg.syslog_level)]}
     ELSE {})

\* what constructing the rotating file sink can do: open the file, or throw
\* when it cannot be opened; without a file sink nothing is opened
FileOpenOutcomes(cfg) ==
  IF cfg.enable_file /\ cfg.file_path # <<>> THEN {"opened", "throws"}
  ELSE {"none"}

\* the sinks and the logger; an exception leaves the noexcept Init through
\* std::terminate
SpdlogInit_Sinks(t) ==
  /\ backend = "spdlog" /\ At(t, "spd_sinks")
  /\ \E o \in FileOpenOutcomes(th[t].arg) :
       IF o = "throws"
       THEN /\ proc' = "terminated"
            /\ th' = [th EXCEPT ![t].failed = {"file"}]
       ELSE /\ proc' = proc
            /\ th' = [th EXCEPT ![t].pc = "spd_setdef",
                                ![t].raw = [id |-> th[t].rec, level |-> 0,
                                            sinks |-> SinksOf(th[t].arg)]]
  /\ UNCHANGED <<ndebug, compile_level, unit, backend, active, inited, cfg_, logger, cat_, zenv, mtx_, out,
                 ncalls, inits, lastInit, lastOp, snap>>

\* spdlog::set_default_logger: the registry drops the logger it held
SpdlogInit_SetDefault(t) ==
  /\ backend = "spdlog" /\ At(t, "spd_setdef")
  /\ logger' = th[t].raw
  /\ Goto(t, "p_store")
  /\ UNCHANGED <<ndebug, compile_level, unit, backend, active, inited, cfg_, cat_, zenv, mtx_, out, proc,
                 ncalls, inits, lastInit, lastOp, snap>>

SpdlogInit_StoreInited(t) ==
  /\ backend = "spdlog" /\ At(t, "p_store")
  /\ inited' = [inited EXCEPT !["spdlog"] = TRUE]
  /\ Goto(t, "f_cfg")
  /\ UNCHANGED <<ndebug, compile_level, unit, backend, active, cfg_, logger, cat_, zenv, mtx_, out, proc,
                 ncalls, inits, lastInit, lastOp, snap>>

\* -------------------------------------------- zlog_backend::Backend::Init
ZlogInit_StoreCfg(t) ==
  /\ backend = "zlog" /\ At(t, "p_cfg")
  /\ cfg_' = [cfg_ EXCEPT !["zlog"] = th[t].arg]
  /\ Goto(t, "z_init")
  /\ UNCHANGED <<ndebug, compile_level, unit, backend, active, inited, logger, cat_, zenv, mtx_, out, proc,
                 ncalls, inits, lastInit, lastOp, snap>>

\* the results zlog_init can give on the two paths tried: 0 when one of the
\* configuration files loads, an error when neither does or when the library
\* is initialised already
ZlogInitResults == IF zenv # 0 THEN {-1} ELSE {0, -1}

\* the destinations that could not be set up when zlog_init gave rc
ZlogFailed(rc) == IF rc # 0 /\ zenv = 0 THEN {"zlog"} ELSE {}

ZlogInit_ZlogInit(t) ==
  /\ backend = "zlog" /\ At(t, "z_init")
  /\ \E rc \in ZlogInitResults :
       IF rc = 0
       THEN /\ zenv' = th[t].rec
            /\ Goto(t, "z_cat")
       ELSE /\ zenv' = zenv
            /\ th' = [th EXCEPT ![t].pc = "f_cfg", ![t].failed = ZlogFailed(rc)]
  /\ UNCHANGED <<ndebug, compile_level, unit, backend, active, inited, cfg_, logger, cat_, mtx_, out, proc,
                 ncalls, inits, lastInit, lastOp, snap>>

\* cat_ = zlog_get_category("default")
ZlogInit_Category(t) ==
  /\ backend = "zlog" /\ At(t, "z_cat")
  /\ cat_' = zenv
  /\ Goto(t, "p_store")
  /\ UNCHANGED <<ndebug, compile_level, unit, backend, active, inited, cfg_, logger, zenv, mtx_, out, proc,
                 ncalls, inits, lastInit, lastOp, snap>>

ZlogInit_StoreInited(t) ==
  /\ backend = "zlog" /\ At(t, "p_store")
  /\ inited' = [inited EXCEPT !["zlog"] = (cat_ # 0)]
  /\ Goto(t, "f_cfg")
  /\ UNCHANGED <<ndebug, compile_level, unit, backend, active, cfg_, logger, cat_, zenv, mtx_, out, proc,
                 ncalls, inits, lastInit, lastOp, snap>>

\* ------------------------------------------------------ detail::LogDispatch
\* the call and its IsInited() test; an uninitialised engine gets Init() first
LogDispatch(t) ==
  /\ CanCall(t)
  /\ \E l \in LogLevels :
       Set(t, IF inited[backend]
              THEN [Begin(t, "LogDispatch", "log") EXCEPT !.lv = l]
              ELSE [Begin(t, "LogDispatch", "p_cfg") EXCEPT
                      !.lv = l, !.lazy = TRUE, !.arg = DefaultInitCfg])
  /\ ncalls' = ncalls + 1
  /\ UNCHANGED <<ndebug, compile_level, unit, backend, active, inited, cfg_, logger, cat_, zenv, mtx_, out,
                 proc, inits, lastInit, lastOp, snap>>

\* -------------------------------------------------- the call-site macros
\* #if LOGHELPER_COMPILE_LEVEL <= LOGHELPER_LEVEL_x: the macro of severity lv
\* stands for its call; otherwise it stands for ((void)0)
Expanded_OneBelow(lv) == compile_level <= lv + 1

Expanded(lv) == compile_level <= lv

\* LogDispatch entered with severity l, its IsInited() test made
DispatchCall(t, l) ==
  IF inited[backend]
  THEN [Begin(t, "LogDispatch", "log") EXCEPT !.lv = l]
  ELSE [Begin(t, "LogDispatch", "p_cfg") EXCEPT
          !.lv = l, !.lazy = TRUE, !.arg = DefaultInitCfg]

\* a call site that calls nothing
NoCall(t, l) == [Begin(t, "NoOp", "ret") EXCEPT !.lv = l]

\* LOG_TRACE .. LOG_FATAL: the arguments are evaluated for the call
LOG_X(t) ==
  /\ CanCall(t)
  /\ \E l \in kTrace .. kFatal :
       Set(t, IF Expanded(l)
              THEN [DispatchCall(t, l) EXCEPT !.site = "LOG", !.evald = {"args"}]
              ELSE [NoCall(t, l) EXCEPT !.site = "LOG"])
  /\ ncalls' = ncalls + 1
  /\ UNCHANGED <<ndebug, compile_level, unit, backend, active, inited, cfg_, logger, cat_, zenv, mtx_, out,
                 proc, inits, lastInit, lastOp, snap>>

\* LOG_TAG_TRACE .. LOG_TAG_FATAL
LOG_TAG_X(t) ==
  /\ CanCall(t)
  /\ \E l \in kTrace .. kFatal :
       Set(t, IF Expanded(l)
              THEN [DispatchCall(t, l) EXCEPT !.site = "LOG_TAG",
                                              !.evald = {"tag", "args"}]
              ELSE [NoCall(t, l) EXCEPT !.site = "LOG_TAG"])
  /\ ncalls' = ncalls + 1
  /\ UNCHANGED <<ndebug, compile_level, unit, backend, active, inited, cfg_, logger, cat_, zenv, mtx_, out,
                 proc, inits, lastInit, lastOp, snap>>

\* a variant that logs whatever the condition is
LOG_X_IF_Always(t) ==
  /\ CanCall(t)
  /\ \E l \in kTrace .. kError, c \in BOOLEAN :
       Set(t, IF ~Expanded(l)
              THEN [NoCall(t, l) EXCEPT !.site = "LOG_IF", !.cond = c]
              ELSE [DispatchCall(t, l) EXCEPT !.site = "LOG_IF", !.cond = c,
                                              !.evald = {"cond", "args"}])
  /\ ncalls' = ncalls + 1
  /\ UNCHANGED <<ndebug, compile_level, unit, backend, active, inited, cfg_, logger, cat_, zenv, mtx_, out,
                 proc, inits, lastInit, lastOp, snap>>

\* LOG_TRACE_IF .. LOG_ERROR_IF: do { if (cond) LOG_x(...); } while (0)
LOG_X_IF(t) ==
  /\ CanCall(t)
  /\ \E l \in kTrace .. kError, c \in BOOLEAN :
       Set(t, IF ~Expanded(l)
              THEN [NoCall(t, l) EXCEPT !.site = "LOG_IF", !.cond = c]
              ELSE IF ~c
              THEN [NoCall(t, l) EXCEPT !.site = "LOG_IF", !.cond = c,
                                        !.evald = {"cond"}]
              ELSE [DispatchCall(t, l) EXCEPT !.site = "LOG_IF", !.cond = c,
                                              !.evald = {"cond", "args"}])
  /\ ncalls' = ncalls + 1
  /\ UNCHANGED <<ndebug, compile_level, unit, backend, active, inited, cfg_, logger, cat_, zenv, mtx_, out,
                 proc, inits, lastInit, lastOp, snap>>

\* AMS_DEBUG, AMS_INFO, AMS_WARN, AMS_ERROR: in a spdlog build
\* spdlog_backend::Backend::Instance().LogFmt(lv, nullptr, ...), which calls
\* spdlog::default_logger_raw()->log(...); in the other builds the LOG_* macro
\* of the severity
AMS_X(t) ==
  /\ CanCall(t)
  /\ \E l \in kDebug .. kError :
       Set(t, IF backend = "spdlog"
              THEN [Begin(t, "LogFmt", "spd_raw") EXCEPT
                      !.lv = l, !.site = "AMS", !.evald = {"args"}]
              ELSE IF Expanded(l)
              THEN [DispatchCall(t, l) EXCEPT !.site = "AMS", !.evald = {"args"}]
              ELSE [NoCall(t, l) EXCEPT !.site = "AMS"])
  /\ ncalls' = ncalls + 1
  /\ UNCHANGED <<ndebug, compile_level, unit, backend, active, inited, cfg_, logger, cat_, zenv, mtx_, out,
                 proc, inits, lastInit, lastOp, snap>>

\* a variant that NDEBUG does not compile out
LOG_ASSERT_InRelease(t) ==
  /\ CanCall(t)
  /\ \E c \in BOOLEAN :
       Set(t, IF c
              THEN [NoCall(t, kFatal) EXCEPT !.site = "LOG_ASSERT", !.cond = c,
                                             !.evald = {"cond"}]
              ELSE [DispatchCall(t, kFatal) EXCEPT !.site = "LOG_ASSERT",
                                                   !.cond = c,
                                                   !.evald = {"cond", "args"}])
  /\ ncalls' = ncalls + 1
  /\ UNCHANGED <<ndebug, compile_level, unit, backend, active, inited, cfg_, logger, cat_, zenv, mtx_, out,
                 proc, inits, lastInit, lastOp, snap>>

\* LOG_ASSERT(cond, fmt, ...): ((void)0) with NDEBUG; otherwise
\* do { if (!(cond)) { LogDispatch(kFatal, ...); std::abort(); } } while (0)
LOG_ASSERT(t) ==
  /\ CanCall(t)
  /\ \E c \in BOOLEAN :
       Set(t, IF ndebug
              THEN [NoCall(t, kFatal) EXCEPT !.site = "LOG_ASSERT", !.cond = c]
              ELSE IF c
              THEN [NoCall(t, kFatal) EXCEPT !.site = "LOG_ASSERT", !.cond = c,
                                             !.evald = {"cond"}]
              ELSE [DispatchCall(t, kFatal) EXCEPT !.site = "LOG_ASSERT",
                                                   !.cond = c,
                                                   !.evald = {"cond", "args"}])
  /\ ncalls' = ncalls + 1
  /\ UNCHANGED <<ndebug, compile_level, unit, backend, active, inited, cfg_, logger, cat_, zenv, mtx_, out,
                 proc, inits, lastInit, lastOp, snap>>

\* LogDispatch has returned inside a LOG_ASSERT
InAssert(t) == th[t].site = "LOG_ASSERT" /\ th[t].op = "LogDispatch"

\* std::abort() after the LogDispatch of a LOG_ASSERT
LOG_ASSERT_Abort(t) ==
  /\ At(t, "ret") /\ InAssert(t)
  /\ proc' = "aborted"
  /\ UNCHANGED <<ndebug, compile_level, unit, backend, active, inited, cfg_, logger, cat_, zenv, mtx_, out,
                 th, ncalls, inits, lastInit, lastOp, snap>>

\* ------------------------------------------------------ the message text
\* A text of the logging path is given by its length; what a bounded buffer
\* holds of it is its first characters, given by their number.
LOGHELPER_MAX_MSG_LEN == 2048

\* a variant that fills the whole buffer
Vsnprintf_NoTerminator(len, cap) == IF len > cap THEN cap ELSE len

\* vsnprintf(buf, cap, ...) of a text of len characters: the characters kept
Vsnprintf(len, cap) == IF len > cap - 1 THEN cap - 1 ELSE len

\* "[%s] " before the message when there is a tag
TagPrefix(tagLen) == IF tagLen > 0 THEN tagLen + 3 ELSE 0

\* "[%s:%d:%s] ": locLen characters of file name, line number and function
LocPrefix(locLen) == locLen + 5

\* the characters of the message left in a buffer of cap bytes that takes
\* prefix characters first
MsgKept(prefix, msg, cap) ==
  LET all == Vsnprintf(prefix + msg, cap) IN
  IF all > prefix THEN all - prefix ELSE 0

\* LogDispatch(lv, tag, file, line, func, fmt, ...) with its texts: the
\* length of the formatted message, of the tag (0: no tag) and of the source
\* location
LogDispatchText(t) ==
  /\ CanCall(t)
  /\ \E l \in LogLevels,
        m \in {0, 1, LOGHELPER_MAX_MSG_LEN - 1, LOGHELPER_MAX_MSG_LEN,
               LOGHELPER_MAX_MSG_LEN + 1, 2 * LOGHELPER_MAX_MSG_LEN},
        g \in {0, 3, 61, 62},
        c \in {12, 130} :
       Set(t, [DispatchCall(t, l) EXCEPT !.msgLen = m, !.tagLen = g,
                                         !.locLen = c])
  /\ ncalls' = ncalls + 1
  /\ UNCHANGED <<ndebug, compile_level, unit, backend, active, inited, cfg_, logger, cat_, zenv, mtx_, out,
                 proc, inits, lastInit, lastOp, snap>>

\* ------------------------------------------------ fallback::Backend::Log
FallbackLog_Check(t) ==
  /\ backend = "fallback" /\ At(t, "log")
  /\ Goto(t, IF th[t].lv < cfg_["fallback"].console_level THEN "ret"
             ELSE "fb_fmt")
  /\ UNCHANGED <<ndebug, compile_level, unit, backend, active, inited, cfg_, logger, cat_, zenv, mtx_, out,
                 proc, ncalls, inits, lastInit, lastOp, snap>>

\* char msg[LOGHELPER_MAX_MSG_LEN]; vsnprintf(msg, sizeof(msg), fmt, args)
FallbackLog_Format(t) ==
  /\ At(t, "fb_fmt")
  /\ th' = [th EXCEPT ![t].pc = "fb_ts",
                      ![t].msg = Vsnprintf(th[t].msgLen, LOGHELPER_MAX_MSG_LEN)]
  /\ UNCHANGED <<ndebug, compile_level, unit, backend, active, inited, cfg_, logger, cat_, zenv, mtx_, out,
                 proc, ncalls, inits, lastInit, lastOp, snap>>

FallbackLog_Timestamp(t) ==
  /\ At(t, "fb_ts")
  /\ Goto(t, "fb_lock")
  /\ UNCHANGED <<ndebug, compile_level, unit, backend, active, inited, cfg_, logger, cat_, zenv, mtx_, out,
                 proc, ncalls, inits, lastInit, lastOp, snap>>

\* a variant that does not wait for the mutex
FallbackLog_Lock_NoWait(t) ==
  /\ At(t, "fb_lock")
  /\ mtx_' = t
  /\ Goto(t, "fb_head")
  /\ UNCHANGED <<ndebug, compile_level, unit, backend, active, inited, cfg_, logger, cat_, zenv, out, proc,
                 ncalls, inits, lastInit, lastOp, snap>>

\* std::lock_guard<std::mutex> lock(mtx_)
FallbackLog_Lock(t) ==
  /\ At(t, "fb_lock")
  /\ mtx_ = 0
  /\ mtx_' = t
  /\ Goto(t, "fb_head")
  /\ UNCHANGED <<ndebug, compile_level, unit, backend, active, inited, cfg_, logger, cat_, zenv, out, proc,
                 ncalls, inits, lastInit, lastOp, snap>>

\* fprintf on the unbuffered stderr: the line reaches the stream in pieces,
\* first the bracketed fields
FallbackLog_WriteHead(t) ==
  /\ At(t, "fb_head")
  /\ out' = Emit([rec |-> th[t].rec, part |-> "head"])
  /\ Goto(t, "fb_tail")
  /\ UNCHANGED <<ndebug, compile_level, unit, backend, active, inited, cfg_, logger, cat_, zenv, mtx_, proc,
                 ncalls, inits, lastInit, lastOp, snap>>

\* then the message and the end of line
FallbackLog_WriteTail(t) ==
  /\ At(t, "fb_tail")
  /\ out' = Emit([rec |-> th[t].rec, part |-> "tail"])
  /\ th' = [th EXCEPT ![t].pc = "fb_unlock", ![t].got = {"console"},
                      ![t].sent = th[t].msg]
  /\ UNCHANGED <<ndebug, compile_level, unit, backend, active, inited, cfg_, logger, cat_, zenv, mtx_, proc,
                 ncalls, inits, lastInit, lastOp, snap>>

\* a variant that returns with the mutex held
FallbackLog_Unlock_Kept(t) ==
  /\ At(t, "fb_unlock")
  /\ mtx_' = mtx_
  /\ Goto(t, "ret")
  /\ UNCHANGED <<ndebug, compile_level, unit, backend, active, inited, cfg_, logger, cat_, zenv, out, proc,
                 ncalls, inits, lastInit, lastOp, snap>>

\* fflush, and the lock_guard goes out of scope
FallbackLog_Unlock(t) ==
  /\ At(t, "fb_unlock")
  /\ mtx_' = 0
  /\ Goto(t, "ret")
  /\ UNCHANGED <<ndebug, compile_level, unit, backend, active, inited, cfg_, logger, cat_, zenv, out, proc,
                 ncalls, inits, lastInit, lastOp, snap>>

\* ------------------------------------------- spdlog_backend::Backend::Log
\* msg, then char tagged[LOGHELPER_MAX_MSG_LEN + 64] with the tag before it
SpdlogLog_Format(t) ==
  /\ backend = "spdlog" /\ At(t, "log")
  /\ th' = [th EXCEPT ![t].pc = "spd_raw",
                      ![t].msg = MsgKept(TagPrefix(th[t].tagLen),
                                         Vsnprintf(th[t].msgLen,
                                                   LOGHELPER_MAX_MSG_LEN),
                                         LOGHELPER_MAX_MSG_LEN + 64)]
  /\ UNCHANGED <<ndebug, compile_level, unit, backend, active, inited, cfg_, logger, cat_, zenv, mtx_, out,
                 proc, ncalls, inits, lastInit, lastOp, snap>>

\* spdlog::default_logger_raw()
SpdlogLog_Raw(t) ==
  /\ At(t, "spd_raw")
  /\ th' = [th EXCEPT ![t].pc = "spd_log", ![t].raw = logger]
  /\ UNCHANGED <<ndebug, compile_level, unit, backend, active, inited, cfg_, logger, cat_, zenv, mtx_, out,
                 proc, ncalls, inits, lastInit, lastOp, snap>>

\* the sinks of a logger that take a record of level lv
Delivered(lg, lv) ==
  IF ToSpdLevel(lv) >= lg.level
  THEN {s.dest : s \in {x \in lg.sinks : ToSpdLevel(lv) >= x.level}}
  ELSE {}

\* a logger lives while the registry holds it as the default logger or an
\* Init that made it has not returned yet
HeldByInit(lg) ==
  \E u \in Threads :
    /\ th[u].pc \in {"spd_setdef", "p_store", "f_cfg", "f_store"}
    /\ th[u].raw.id = lg.id

\* what a call through a raw logger pointer can do: a live logger is logged
\* to; a null pointer faults; a logger that has been destroyed is used after
\* free, and the call faults or still runs on the freed object
RawCallOutcomes(lg) ==
  IF lg.id = -1 THEN {"fault"}
  ELSE IF lg.id = logger.id \/ HeldByInit(lg) THEN {"runs"}
  ELSE {"fault", "runs"}

\* ->log(src, ToSpdLevel(lv), tagged)
SpdlogLog_Log(t) ==
  /\ At(t, "spd_log")
  /\ \E o \in RawCallOutcomes(th[t].raw) :
       IF o = "fault"
       THEN /\ proc' = "crashed"
            /\ th' = th
       ELSE /\ proc' = proc
            /\ th' = [th EXCEPT ![t].pc = "ret",
                                ![t].got = Delivered(th[t].raw, th[t].lv),
                                ![t].sent = th[t].msg]
  /\ UNCHANGED <<ndebug, compile_level, unit, backend, active, inited, cfg_, logger, cat_, zenv, mtx_, out,
                 ncalls, inits, lastInit, lastOp, snap>>

\* --------------------------------------------- zlog_backend::Backend::Log
ZlogLog_Check(t) ==
  /\ backend = "zlog" /\ At(t, "log")
  /\ Goto(t, IF cat_ = 0 THEN "ret" ELSE "z_fmt")
  /\ UNCHANGED <<ndebug, compile_level, unit, backend, active, inited, cfg_, logger, cat_, zenv, mtx_, out,
                 proc, ncalls, inits, lastInit, lastOp, snap>>

\* msg, then char tagged[LOGHELPER_MAX_MSG_LEN + 128] with the tag and the
\* source location before it
ZlogLog_Format(t) ==
  /\ At(t, "z_fmt")
  /\ th' = [th EXCEPT ![t].pc = "z_emit",
                      ![t].msg = MsgKept(TagPrefix(th[t].tagLen)
                                           + LocPrefix(th[t].locLen),
                                         Vsnprintf(th[t].msgLen,
                                                   LOGHELPER_MAX_MSG_LEN),
                                         LOGHELPER_MAX_MSG_LEN + 128)]
  /\ UNCHANGED <<ndebug, compile_level, unit, backend, active, inited, cfg_, logger, cat_, zenv, mtx_, out,
                 proc, ncalls, inits, lastInit, lastOp, snap>>

\* what a zlog_* call on a category can do: the live category takes the
\* record; with a null category zlog refuses while the library is down and
\* faults otherwise; a category zlog_fini has freed is read after free
ZlogCallOutcomes(c) ==
  IF c = 0 THEN (IF zenv = 0 THEN {"refused"} ELSE {"fault"})
  ELSE IF c = zenv THEN {"taken"}
  ELSE {"fault", "refused", "taken"}

\* the switch on lv: kTrace..kFatal call zlog, anything else does nothing
ZlogLog_Emit(t) ==
  /\ At(t, "z_emit")
  /\ \E o \in (IF th[t].lv \in kTrace .. kFatal THEN ZlogCallOutcomes(cat_)
               ELSE {"refused"}) :
       IF o = "fault"
       THEN /\ proc' = "crashed"
            /\ th' = th
       ELSE /\ proc' = proc
            /\ th' = [th EXCEPT ![t].pc = "ret",
                       ![t].got = IF o = "taken" THEN {"zlog"} ELSE {},
                       ![t].sent = th[t].msg]
  /\ UNCHANGED <<ndebug, compile_level, unit, backend, active, inited, cfg_, logger, cat_, zenv, mtx_, out,
                 ncalls, inits, lastInit, lastOp, snap>>

\* -------------------------------------------------- LogEngine::Shutdown
\* a variant that shuts the safety net down too
ShutdownInstances_Both == {backend, "fallback"}

\* the backend instances LogEngine::Shutdown shuts down
ShutdownInstances == {backend}

Uninit == [b \in Backends |-> IF b \in ShutdownInstances THEN FALSE
                              ELSE inited[b]]

FallbackShutdown(t) ==
  /\ backend = "fallback" /\ CanCall(t)
  /\ inited' = Uninit
  /\ Set(t, Begin(t, "Shutdown", "ret"))
  /\ ncalls' = ncalls + 1
  /\ UNCHANGED <<ndebug, compile_level, unit, backend, active, cfg_, logger, cat_, zenv, mtx_, out, proc,
                 inits, lastInit, lastOp, snap>>

SpdlogShutdown_Load(t) ==
  /\ backend = "spdlog" /\ CanCall(t)
  /\ Set(t, Begin(t, "Shutdown", IF inited["spdlog"] THEN "spd_shut" ELSE "ret"))
  /\ ncalls' = ncalls + 1
  /\ UNCHANGED <<ndebug, compile_level, unit, backend, active, inited, cfg_, logger, cat_, zenv, mtx_, out,
                 proc, inits, lastInit, lastOp, snap>>

\* spdlog::shutdown(): the registry drops every logger, the default one too
SpdlogShutdown_Lib(t) ==
  /\ At(t, "spd_shut")
  /\ logger' = NullLogger
  /\ Goto(t, "sd_store")
  /\ UNCHANGED <<ndebug, compile_level, unit, backend, active, inited, cfg_, cat_, zenv, mtx_, out, proc,
                 ncalls, inits, lastInit, lastOp, snap>>

\* a variant that leaves the flag set
SpdlogShutdown_Store_Skipped(t) ==
  /\ backend = "spdlog" /\ At(t, "sd_store")
  /\ inited' = inited
  /\ Goto(t, "ret")
  /\ UNCHANGED <<ndebug, compile_level, unit, backend, active, cfg_, logger, cat_, zenv, mtx_, out, proc,
                 ncalls, inits, lastInit, lastOp, snap>>

SpdlogShutdown_Store(t) ==
  /\ backend = "spdlog" /\ At(t, "sd_store")
  /\ inited' = Uninit
  /\ Goto(t, "ret")
  /\ UNCHANGED <<ndebug, compile_level, unit, backend, active, cfg_, logger, cat_, zenv, mtx_, out, proc,
                 ncalls, inits, lastInit, lastOp, snap>>

ZlogShutdown_Load(t) ==
  /\ backend = "zlog" /\ CanCall(t)
  /\ Set(t, Begin(t, "Shutdown", IF inited["zlog"] THEN "z_fini" ELSE "ret"))
  /\ ncalls' = ncalls + 1
  /\ UNCHANGED <<ndebug, compile_level, unit, backend, active, inited, cfg_, logger, cat_, zenv, mtx_, out,
                 proc, inits, lastInit, lastOp, snap>>

ZlogShutdown_Fini(t) ==
  /\ At(t, "z_fini")
  /\ zenv' = 0
  /\ Goto(t, "z_catnull")
  /\ UNCHANGED <<ndebug, compile_level, unit, backend, active, inited, cfg_, logger, cat_, mtx_, out, proc,
                 ncalls, inits, lastInit, lastOp, snap>>

ZlogShutdown_Cat(t) ==
  /\ At(t, "z_catnull")
  /\ cat_' = 0
  /\ Goto(t, "sd_store")
  /\ UNCHANGED <<ndebug, compile_level, unit, backend, active, inited, cfg_, logger, zenv, mtx_, out, proc,
                 ncalls, inits, lastInit, lastOp, snap>>

ZlogShutdown_Store(t) ==
  /\ backend = "zlog" /\ At(t, "sd_store")
  /\ inited' = Uninit
  /\ Goto(t, "ret")
  /\ UNCHANGED <<ndebug, compile_level, unit, backend, active, cfg_, logger, cat_, zenv, mtx_, out, proc,
                 ncalls, inits, lastInit, lastOp, snap>>

\* ------------------------------------------------------ LogEngine::Flush
FallbackFlush(t) ==
  /\ backend = "fallback" /\ CanCall(t)
  /\ Set(t, Begin(t, "Flush", "ret"))
  /\ ncalls' = ncalls + 1
  /\ UNCHANGED <<ndebug, compile_level, unit, backend, active, inited, cfg_, logger, cat_, zenv, mtx_, out,
                 proc, inits, lastInit, lastOp, snap>>

\* a variant without the test of inited_
SpdlogFlush_Load_Unchecked(t) ==
  /\ backend = "spdlog" /\ CanCall(t)
  /\ Set(t, Begin(t, "Flush", "spd_flush"))
  /\ ncalls' = ncalls + 1
  /\ UNCHANGED <<ndebug, compile_level, unit, backend, active, inited, cfg_, logger, cat_, zenv, mtx_, out,
                 proc, inits, lastInit, lastOp, snap>>

\* if (inited_.load(...)) ...
SpdlogFlush_Load(t) ==
  /\ backend = "spdlog" /\ CanCall(t)
  /\ Set(t, Begin(t, "Flush", IF inited["spdlog"] THEN "spd_flush" ELSE "ret"))
  /\ ncalls' = ncalls + 1
  /\ UNCHANGED <<ndebug, compile_level, unit, backend, active, inited, cfg_, logger, cat_, zenv, mtx_, out,
                 proc, inits, lastInit, lastOp, snap>>

\* spdlog::default_logger_raw()->flush()
SpdlogFlush_Flush(t) ==
  /\ At(t, "spd_flush")
  /\ IF logger.id = -1
     THEN proc' = "crashed" /\ th' = th
     ELSE proc' = proc /\ Goto(t, "ret")
  /\ UNCHANGED <<ndebug, compile_level, unit, backend, active, inited, cfg_, logger, cat_, zenv, mtx_, out,
                 ncalls, inits, lastInit, lastOp, snap>>

ZlogFlush(t) ==
  /\ backend = "zlog" /\ CanCall(t)
  /\ Set(t, Begin(t, "Flush", "ret"))
  /\ ncalls' = ncalls + 1
  /\ UNCHANGED <<ndebug, compile_level, unit, backend, active, inited, cfg_, logger, cat_, zenv, mtx_, out,
                 proc, inits, lastInit, lastOp, snap>>

\* ------------------------------------------ LogEngine::IsInited, GetConfig
IsInited(t) ==
  /\ CanCall(t)
  /\ Set(t, [Begin(t, "IsInited", "ret") EXCEPT !.retB = inited[backend]])
  /\ ncalls' = ncalls + 1
  /\ UNCHANGED <<ndebug, compile_level, unit, backend, active, inited, cfg_, logger, cat_, zenv, mtx_, out,
                 proc, inits, lastInit, lastOp, snap>>

GetConfig(t) ==
  /\ CanCall(t)
  /\ Set(t, Begin(t, "GetConfig", "gc_read"))
  /\ ncalls' = ncalls + 1
  /\ UNCHANGED <<ndebug, compile_level, unit, backend, active, inited, cfg_, logger, cat_, zenv, mtx_, out,
                 proc, inits, lastInit, lastOp, snap>>

\* the caller reads the record the returned reference names
GetConfig_Read(t) ==
  /\ At(t, "gc_read")
  /\ th' = [th EXCEPT ![t].pc = "ret", ![t].retC = cfg_[backend]]
  /\ UNCHANGED <<ndebug, compile_level, unit, backend, active, inited, cfg_, logger, cat_, zenv, mtx_, out,
                 proc, ncalls, inits, lastInit, lastOp, snap>>

\* ------------------------------------------------------------- the return
RanInit(r) == r.op \in {"Init", "InitDefault", "InitPath"} \/ r.lazy

\* the call is over and control is back at the statement after it
Return(t) ==
  /\ At(t, "ret") /\ ~InAssert(t)
  /\ Set(t, Idle)
  /\ lastOp' = th[t].op
  /\ inits' = IF RanInit(th[t]) THEN inits + 1 ELSE inits
  /\ lastInit' = IF RanInit(th[t]) THEN th[t].arg ELSE lastInit
  /\ snap' = BackendState
  /\ UNCHANGED <<ndebug, compile_level, unit, backend, active, inited, cfg_, logger, cat_, zenv, mtx_, out,
                 proc, ncalls>>

Next ==
  \E t \in Threads :
    \/ EngineInitCfg(t) \/ EngineInitDefault(t) \/ EngineInitPath(t)
    \/ FallbackInit_StoreCfg(t) \/ FallbackInit_StoreInited(t)
    \/ SpdlogInit_StoreCfg(t) \/ SpdlogInit_Sinks(t)
    \/ SpdlogInit_SetDefault(t) \/ SpdlogInit_StoreInited(t)
    \/ ZlogInit_StoreCfg(t) \/ ZlogInit_ZlogInit(t)
    \/ ZlogInit_Category(t) \/ ZlogInit_StoreInited(t)
    \/ LogDispatch(t)
    \/ FallbackLog_Check(t) \/ FallbackLog_Format(t)
    \/ FallbackLog_Timestamp(t) \/ FallbackLog_Lock(t)
    \/ FallbackLog_WriteHead(t) \/ FallbackLog_WriteTail(t)
    \/ FallbackLog_Unlock(t)
    \/ SpdlogLog_Format(t) \/ SpdlogLog_Raw(t) \/ SpdlogLog_Log(t)
    \/ ZlogLog_Check(t) \/ ZlogLog_Format(t) \/ ZlogLog_Emit(t)
    \/ FallbackShutdown(t)
    \/ SpdlogShutdown_Load(t) \/ SpdlogShutdown_Lib(t)
    \/ SpdlogShutdown_Store(t)
    \/ ZlogShutdown_Load(t) \/ ZlogShutdown_Fini(t) \/ ZlogShutdown_Cat(t)
    \/ ZlogShutdown_Store(t)
    \/ FallbackFlush(t) \/ SpdlogFlush_Load(t) \/ SpdlogFlush_Flush(t)
    \/ ZlogFlush(t)
    \/ IsInited(t) \/ GetConfig(t) \/ GetConfig_Read(t)
    \/ Return(t)

\* any number of threads
Spec == Init /\ [][Next]_vars

\* one thread: the calls come one after the other
SeqSpec == InitSeq /\ [][Next]_vars

\* a fallback build whose threads only log
NextLog ==
  \E t \in Threads :
    \/ LogDispatch(t)
    \/ FallbackInit_StoreCfg(t) \/ FallbackInit_StoreInited(t)
    \/ FallbackLog_Check(t) \/ FallbackLog_Format(t)
    \/ FallbackLog_Timestamp(t) \/ FallbackLog_Lock(t)
    \/ FallbackLog_WriteHead(t) \/ FallbackLog_WriteTail(t)
    \/ FallbackLog_Unlock(t)
    \/ Return(t)

LogSpec == InitLog /\ [][NextLog]_vars

\* the steps of thread t inside a call it has started
Continue(t) ==
  \/ FallbackInit_StoreCfg(t) \/ FallbackInit_StoreInited(t)
  \/ FallbackLog_Check(t) \/ FallbackLog_Format(t)
  \/ FallbackLog_Timestamp(t) \/ FallbackLog_Lock(t)
  \/ FallbackLog_WriteHead(t) \/ FallbackLog_WriteTail(t)
  \/ FallbackLog_Unlock(t)
  \/ Return(t)

\* fair scheduling: a thread that can go on inside its call does so in the
\* end; nothing makes a thread start a call
FairLogSpec == LogSpec /\ \A t \in Threads : WF_vars(Continue(t))

\* one thread whose calls are call-site macros, Init() and Shutdown(), in a
\* build of any compile level
InitSite ==
  /\ InitCommon
  /\ active = {1}
  /\ unit = NoUnit
  /\ compile_level \in Level
  /\ ndebug \in BOOLEAN

NextSite ==
  \E t \in Threads :
    \/ LOG_X(t) \/ LOG_TAG_X(t) \/ LOG_X_IF(t)
    \/ LOG_ASSERT(t) \/ LOG_ASSERT_Abort(t) \/ AMS_X(t)
    \/ EngineInitDefault(t)
    \/ FallbackInit_StoreCfg(t) \/ FallbackInit_StoreInited(t)
    \/ SpdlogInit_StoreCfg(t) \/ SpdlogInit_Sinks(t)
    \/ SpdlogInit_SetDefault(t) \/ SpdlogInit_StoreInited(t)
    \/ ZlogInit_StoreCfg(t) \/ ZlogInit_ZlogInit(t)
    \/ ZlogInit_Category(t) \/ ZlogInit_StoreInited(t)
    \/ FallbackLog_Check(t) \/ FallbackLog_Format(t)
    \/ FallbackLog_Timestamp(t) \/ FallbackLog_Lock(t)
    \/ FallbackLog_WriteHead(t) \/ FallbackLog_WriteTail(t)
    \/ FallbackLog_Unlock(t)
    \/ SpdlogLog_Format(t) \/ SpdlogLog_Raw(t) \/ SpdlogLog_Log(t)
    \/ ZlogLog_Check(t) \/ ZlogLog_Format(t) \/ ZlogLog_Emit(t)
    \/ FallbackShutdown(t)
    \/ SpdlogShutdown_Load(t) \/ SpdlogShutdown_Lib(t)
    \/ SpdlogShutdown_Store(t)
    \/ ZlogShutdown_Load(t) \/ ZlogShutdown_Fini(t) \/ ZlogShutdown_Cat(t)
    \/ ZlogShutdown_Store(t)
    \/ Return(t)

SiteSpec == InitSite /\ [][NextSite]_vars

\* one thread that logs texts of every length through LogDispatch
NextText ==
  \E t \in Threads :
    \/ LogDispatchText(t)
    \/ FallbackInit_StoreCfg(t) \/ FallbackInit_StoreInited(t)
    \/ SpdlogInit_StoreCfg(t) \/ SpdlogInit_Sinks(t)
    \/ SpdlogInit_SetDefault(t) \/ SpdlogInit_StoreInited(t)
    \/ ZlogInit_StoreCfg(t) \/ ZlogInit_ZlogInit(t)
    \/ ZlogInit_Category(t) \/ ZlogInit_StoreInited(t)
    \/ FallbackLog_Check(t) \/ FallbackLog_Format(t)
    \/ FallbackLog_Timestamp(t) \/ FallbackLog_Lock(t)
    \/ FallbackLog_WriteHead(t) \/ FallbackLog_WriteTail(t)
    \/ FallbackLog_Unlock(t)
    \/ SpdlogLog_Format(t) \/ SpdlogLog_Raw(t) \/ SpdlogLog_Log(t)
    \/ ZlogLog_Check(t) \/ ZlogLog_Format(t) \/ ZlogLog_Emit(t)
    \/ Return(t)

TextSpec == InitSeq /\ [][NextText]_vars

\* ---------------------------------------- the free functions on their own
EngineVars == <<backend, active, inited, cfg_, logger, cat_, zenv, mtx_, out,
                proc, th, ncalls, inits, lastInit, lastOp, snap>>

\* the text of a line "key=val"
Setting(key, val) == key \o <<"=">> \o val \o <<"\n">>

Pad(n) == [i \in 1 .. n |-> " "]

\* a line whose value stands at the end of a run of blanks; with the shortest
\* level key it fills the line buffer exactly
LongSetting(key) ==
  key \o <<"=">> \o Pad(LineBufSize - 4 - Len(Key.FileLevel)) \o <<"4", "\n">>

\* the lines the configuration files are made of: every key with a plain
\* value; some keys with values out of the range of the levels, with text that
\* is no number and with no text; lines the loop passes over; a key in other
\* letters, an unknown key, white space around key and value; long lines, one
\* of them a comment
IniLines ==
  LET LevelKeys  == {Key.ConsoleLevel, Key.ConsoleLogLevel, Key.FileLevel,
                     Key.FileLogLevel, Key.SyslogLevel, Key.SysLogLevel}
      NumberKeys == {Key.FileMaxSizeMB, Key.FilelogMaxSize, Key.FileMaxFiles,
                     Key.FileMinFreeSpaceMB, Key.FilelogMinFreeSpace,
                     Key.SyslogPort, Key.SysLogPort}
      TextKeys   == {Key.FilePath, Key.SyslogAddr, Key.SysLogAddr,
                     Key.SyslogIdent}
      FlagKeys   == {Key.EnableConsole, Key.EnableFile, Key.EnableSyslog}
      LevelTexts == {<<"9">>, <<"-", "1">>, <<"x">>, <<"4", "x">>}
      FlagTexts  == {<<"1">>, <<"2">>, <<"x">>}
  IN {Setting(k, <<"0">>) : k \in LevelKeys \cup FlagKeys}
     \cup {Setting(k, <<"7">>) : k \in NumberKeys}
     \cup {Setting(k, <<"h">>) : k \in TextKeys}
     \cup {Setting(k, v) : k \in {Key.ConsoleLevel, Key.ConsoleLogLevel},
                           v \in LevelTexts}
     \cup {Setting(Key.EnableSyslog, v) : v \in FlagTexts}
     \cup {Setting(k, << >>) : k \in {Key.FilePath, Key.SyslogAddr,
                                       Key.SysLogAddr}}
     \cup {Setting(Key.FileMaxFiles, <<"x">>), Setting(Key.EnableFile, <<"1">>)}
     \cup { <<"\n">>, <<"#", "c", "\n">>, <<";", "c", "\n">>,
            <<"[", "s", "]", "\n">>,
            Key.ConsoleLevel \o <<" ", "3", "\n">>,
            Setting(<<"c", "o", "n", "s", "o", "l", "e", "l", "e", "v", "e", "l">>,
                    <<"3">>),
            Setting(<<"U">>, <<"1">>),
            <<" ">> \o Key.ConsoleLevel
                   \o <<" ", "=", "\t", "3", " ", "\r", "\n">>,
            LongSetting(Key.FileLevel), LongSetting(Key.FileLogLevel),
            <<"#">> \o Pad(LineBufSize - 2) \o Setting(Key.FileLevel, <<"4">>) }

\* the sequences of at most n lines
RECURSIVE LinesUpTo(_)
LinesUpTo(n) ==
  IF n = 0 THEN {<< >>}
  ELSE LET P == LinesUpTo(n - 1) IN
       P \cup {Append(p, l) : p \in {q \in P : Len(q) = n - 1}, l \in IniLines}

\* the files of at most n lines, and the path without a file
IniFiles(n) ==
  {MissingFile} \cup {[open |-> TRUE, lines |-> l] : l \in LinesUpTo(n)}

\* a record that differs from LogConfig{} in every field
OtherConfig ==
  [ console_level    |-> kError,
    file_level       |-> kWarn,
    syslog_level     |-> kFatal,
    file_max_size_mb |-> 1,
    file_max_files   |-> 2,
    file_min_free_mb |-> 3,
    file_path        |-> <<"p">>,
    syslog_addr      |-> <<"a">>,
    syslog_port      |-> 9,
    syslog_ident     |-> <<"i">>,
    enable_console   |-> FALSE,
    enable_file      |-> FALSE,
    enable_syslog    |-> TRUE ]

\* ParseIniFile on every file and the path without one, over the default
\* record and over the other one; LevelToString on the integers from
\* LevelSlack below kTrace to LevelSlack above kOff
UnitInputs(n) ==
  {[NoUnit EXCEPT !.fn = "ParseIniFile", !.path = f, !.cfg0 = c, !.cfg = c] :
     f \in IniFiles(n), c \in {LogConfig, OtherConfig}}
  \cup {[NoUnit EXCEPT !.fn = "LevelToString", !.lv = l] :
          l \in (kTrace - LevelSlack) .. (kOff + LevelSlack)}

InitUnit ==
  /\ InitCommon
  /\ backend = "fallback"
  /\ active = {}
  /\ ndebug = FALSE
  /\ compile_level = DefaultCompileLevel
  /\ unit \in UnitInputs(MaxIniLines)

\* bool ok = ParseIniFile(path, cfg)
CallParseIniFile ==
  /\ unit.fn = "ParseIniFile" /\ ~unit.done
  /\ LET r == ParseIniFile(unit.path, unit.cfg0) IN
       unit' = [unit EXCEPT !.done = TRUE, !.retB = r[1], !.cfg = r[2]]
  /\ UNCHANGED <<ndebug, compile_level, EngineVars>>

\* const char* name = LevelToString(lv)
CallLevelToString ==
  /\ unit.fn = "LevelToString" /\ ~unit.done
  /\ unit' = [unit EXCEPT !.done = TRUE, !.name = LevelToString(unit.lv)]
  /\ UNCHANGED <<ndebug, compile_level, EngineVars>>

NextUnit == CallParseIniFile \/ CallLevelToString

UnitSpec == InitUnit /\ [][NextUnit]_vars

TypeOK ==
  /\ backend \in Backends
  /\ proc \in {"running", "terminated", "crashed", "aborted"}
  /\ mtx_ \in {0} \cup Threads
  /\ ncalls \in 0 .. CallBudget

\* ------------------------------------------------------------- properties
Returning(t, o) == th[t].pc = "ret" /\ th[t].op = o
ReturningInit(t) == th[t].pc = "ret" /\ RanInit(th[t])

\* C1: for every severity S and every console threshold T of the enumeration,
\* a Log call on the fallback backend writes the record to stderr if and only
\* if S >= T and T is not Off.
C1_FallbackWritesIff ==
  \A t \in Threads :
    (backend = "fallback" /\ Returning(t, "LogDispatch")
       /\ cfg_["fallback"].console_level \in Level)
    => (("console" \in th[t].got)
          <=> (th[t].lv >= cfg_["fallback"].console_level
                 /\ cfg_["fallback"].console_level # kOff))

\* C2: a LogDispatch call that finds the engine uninitialised runs the default
\* initialisation before it logs, so when any LogDispatch call returns the
\* engine is initialised (with the default configuration if it was this call
\* that ran it).
C2_DispatchLeavesInited ==
  \A t \in Threads :
    Returning(t, "LogDispatch")
    => /\ inited[backend]
       /\ th[t].lazy => cfg_[backend] = DefaultInitCfg

\* C3: when Init(), Init(cfg) or Init(path) returns, IsInited() is true, for
\* every primary backend and from every prior state.
C3_InitLeavesInited ==
  \A t \in Threads :
    (th[t].pc = "ret" /\ th[t].op \in {"Init", "InitDefault", "InitPath"})
    => inited[backend]

\* C4: after any sequence of Init calls, with or without Shutdown in between,
\* the primary backend holds the configuration of the most recent Init and
\* GetConfig() returns it; an Init on an initialised engine reconfigures.
C4_GetConfigIsLastInit ==
  \A t \in Threads :
    /\ ReturningInit(t) => cfg_[backend] = th[t].arg
    /\ (Returning(t, "GetConfig") /\ inits > 0) => th[t].retC = lastInit

C4_Witness ==
  \E t \in Threads :
    /\ Returning(t, "GetConfig")
    /\ inits >= 2
    /\ inited[backend]
    /\ th[t].retC.console_level = kError
    /\ th[t].retC.enable_file = FALSE

\* C5: Shutdown in any state returns normally and leaves IsInited() false, and
\* a Shutdown right after a Shutdown leaves the backends as the first left
\* them.
C5_ShutdownIdempotent ==
  \A t \in Threads :
    th[t].op = "Shutdown"
    => /\ proc = "running"
       /\ th[t].pc = "ret"
          => /\ ~inited[backend]
             /\ lastOp = "Shutdown" => BackendState = snap

C5_Witness ==
  \E t \in Threads :
    /\ Returning(t, "Shutdown")
    /\ lastOp = "Shutdown"
    /\ inits > 0
    /\ ~inited[backend]

\* C6 as stated: once LogEngine::Init(cfg) has returned, the fallback backend
\* is initialised with cfg and stays initialised across every later Shutdown,
\* Flush and logging call, for spdlog, zlog and fallback as the primary.
C6_FallbackStaysInited ==
  /\ inits > 0 => inited["fallback"]
  /\ \A t \in Threads :
       ReturningInit(t)
       => inited["fallback"] /\ cfg_["fallback"] = th[t].arg

\* C6 as amended: that holds when spdlog or zlog is the primary backend; when
\* the fallback backend is itself the primary, LogEngine::Init(cfg) leaves it
\* initialised with cfg and LogEngine::Shutdown leaves it uninitialised.
C6_FallbackStaysInitedBesidePrimary ==
  /\ (backend # "fallback" /\ inits > 0) => inited["fallback"]
  /\ \A t \in Threads :
       /\ ReturningInit(t)
          => inited["fallback"] /\ cfg_["fallback"] = th[t].arg
       /\ (backend = "fallback" /\ Returning(t, "Shutdown"))
          => ~inited["fallback"]

C6_Witness ==
  /\ backend = "spdlog"
  /\ lastOp = "Shutdown"
  /\ logger = NullLogger
  /\ ~inited["spdlog"]
  /\ inited["fallback"]
  /\ cfg_["fallback"] = lastInit

\* C7: when threads call Log on the fallback backend concurrently, every line
\* on stderr is the bracketed fields and then the message of one record: the
\* pieces of two records are never in one line.
C7_NoInterleavedLine ==
  /\ \A i, j \in 1 .. Len(out) : out[i].rec = out[j].rec
  /\ Len(out) <= 2
  /\ Len(out) >= 1 => out[1].part = "head"
  /\ Len(out) = 2 => out[2].part = "tail"

C7_Witness ==
  \E t, u \in Threads :
    /\ t # u
    /\ th[t].pc = "fb_tail"
    /\ th[u].pc = "fb_lock"
    /\ Len(out) = 1

\* C8: there is no interleaving in which one thread writes a backend's
\* configuration snapshot in Init while another thread is reading it in Log or
\* GetConfig without synchronisation.
WritesCfg(t, b) ==
  t \in active /\ proc = "running"
  /\ \/ th[t].pc = "p_cfg" /\ b = backend
     \/ th[t].pc = "f_cfg" /\ b = "fallback"

ReadsCfg(t, b) ==
  t \in active /\ proc = "running"
  /\ \/ th[t].pc = "log" /\ backend = "fallback" /\ b = "fallback"
     \/ th[t].pc = "gc_read" /\ b = backend

C8_NoCfgRace ==
  \A t, u \in Threads : \A b \in Backends :
    t # u => ~(WritesCfg(t, b) /\ ReadsCfg(u, b))

\* C9: when several threads make their first logging call on an uninitialised
\* engine and each sees it uninitialised, every call returns, the engine ends
\* initialised with the default configuration, and every record is filtered
\* by the default configuration and none is lost.
ExpectedByDefault(lv) ==
  IF backend = "zlog" THEN (IF lv \in kTrace .. kFatal THEN {"zlog"} ELSE {})
  ELSE IF lv >= kInfo THEN {"console"} ELSE {}

\* every thread is in its first call, a LogDispatch that saw the engine
\* uninitialised, and every destination could be set up
AllFirstCallsLazy ==
  /\ Cardinality(active) > 1
  /\ ncalls = Cardinality(active)
  /\ \A t \in active :
       th[t].op = "LogDispatch" /\ th[t].lazy /\ th[t].failed = {}

C9_LazyInitRaceHarmless ==
  AllFirstCallsLazy
  => /\ proc = "running"
     /\ (\A t \in active : th[t].pc = "ret")
        => /\ inited[backend]
           /\ cfg_[backend] = DefaultInitCfg
           /\ \A t \in active : th[t].got = ExpectedByDefault(th[t].lv)

\* C10: when a destination enabled in the configuration cannot be set up
\* during Init, Init still returns without ending the process and the backend
\* is marked initialised.
C10_InitSurvivesBadDestination ==
  /\ proc # "terminated"
  /\ \A t \in Threads :
       (ReturningInit(t) /\ th[t].failed # {}) => inited[backend]

\* C11: LogEngine::Init(path) returns true for every path; when the file
\* cannot be opened the engine still ends initialised and holds the default
\* configuration, the one LogEngine::Init() applies (console at Info, file and
\* syslog disabled).
C11_InitPathFallsBackToInitDefaults ==
  \A t \in Threads :
    Returning(t, "InitPath")
    => /\ th[t].retB
       /\ ~CanOpen(th[t].path)
            => /\ inited[backend]
               /\ cfg_[backend] = DefaultInitCfg

\* C12: ParseIniFile on a path that cannot be opened returns false and leaves
\* every field of the caller's record as it was before the call.
C12_UnopenedLeavesRecord ==
  (unit.fn = "ParseIniFile" /\ unit.done /\ ~CanOpen(unit.path))
  => (~unit.retB /\ unit.cfg = unit.cfg0)

C12_Witness ==
  /\ unit.fn = "ParseIniFile" /\ unit.done /\ ~CanOpen(unit.path)
  /\ unit.cfg0 = OtherConfig
  /\ unit.cfg.file_path = <<"p">>

\* the keys that have a legacy alias: <<primary name, legacy name>>
Aliases ==
  { <<Key.ConsoleLevel, Key.ConsoleLogLevel>>, <<Key.FileLevel, Key.FileLogLevel>>,
    <<Key.SyslogLevel, Key.SysLogLevel>>, <<Key.FileMaxSizeMB, Key.FilelogMaxSize>>,
    <<Key.FileMinFreeSpaceMB, Key.FilelogMinFreeSpace>>, <<Key.SyslogAddr, Key.SysLogAddr>>,
    <<Key.SyslogPort, Key.SysLogPort>> }

\* whether the loop takes a key and a value from the characters of a line
IsSetting(raw) ==
  LET line == TrimInPlace(raw) IN
  /\ line # << >>
  /\ Head(line) \notin {"#", ";", "["}
  /\ StrChr(line, "=") # 0

\* the key and the value it takes
KeyText(raw) ==
  LET line == TrimInPlace(raw) IN
  TrimInPlace(SubSeq(line, 1, StrChr(line, "=") - 1))

ValText(raw) ==
  LET line == TrimInPlace(raw) IN
  TrimInPlace(SubSeq(line, StrChr(line, "=") + 1, Len(line)))

\* a line with its key written as `to` where it is written as `from`
Respell(raw, from, to) ==
  IF IsSetting(raw) /\ KeyText(raw) = from
  THEN LET n == LeadFrom(raw, 1, Len(raw)) IN
       SubSeq(raw, 1, n - 1) \o to \o SubSeq(raw, n + Len(from), Len(raw))
  ELSE raw

\* a line with its key in the spelling i of the alias table (1 primary,
\* 2 legacy)
Spelled(raw, i) ==
  IF IsSetting(raw) /\ \E a \in Aliases : KeyText(raw) \in {a[1], a[2]}
  THEN LET a == CHOOSE x \in Aliases : KeyText(raw) \in {x[1], x[2]}
       IN Respell(Respell(raw, a[1], a[i]), a[2], a[i])
  ELSE raw

\* a file with every aliased key in spelling i
SpelledFile(path, i) ==
  [path EXCEPT !.lines = [j \in 1 .. Len(path.lines) |-> Spelled(path.lines[j], i)]]

\* C13: for every key that has a legacy alias and every value, loading a file
\* written with the legacy alias gives the record that loading the same file
\* written with the primary key name gives, from the same initial record.
C13_AliasEquivalence ==
  (unit.fn = "ParseIniFile" /\ unit.done /\ CanOpen(unit.path))
  => /\ ParseIniFile(SpelledFile(unit.path, 1), unit.cfg0) = <<TRUE, unit.cfg>>
     /\ ParseIniFile(SpelledFile(unit.path, 2), unit.cfg0) = <<TRUE, unit.cfg>>

\* the pieces the loop reads from a file, in order
RECURSIVE FilePieces(_)
FilePieces(lines) ==
  IF lines = << >> THEN << >>
  ELSE Fgets(Head(lines)) \o FilePieces(Tail(lines))

\* the pieces of a file that set key k or its alias
SettingsOf(ps, keys) ==
  {i \in 1 .. Len(ps) : IsSetting(ps[i]) /\ KeyText(ps[i]) \in keys}

C19_LevelToStringTotal ==
  (unit.fn = "LevelToString" /\ unit.done)
  => unit.name = (IF unit.lv = kTrace THEN "TRACE"
                  ELSE IF unit.lv = kDebug THEN "DEBUG"
                  ELSE IF unit.lv = kInfo THEN "INFO"
                  ELSE IF unit.lv = kWarn THEN "WARN"
                  ELSE IF unit.lv = kError THEN "ERROR"
                  ELSE IF unit.lv = kFatal THEN "FATAL"
                  ELSE IF unit.lv = kOff THEN "OFF"
                  ELSE "?")

C19_Witness ==
  /\ unit.fn = "LevelToString" /\ unit.done
  /\ unit.lv = kTrace - 1
  /\ unit.name = "?"

\* C15: a LOG_*, LOG_TAG_* or LOG_*_IF call site whose severity is below
\* LOGHELPER_COMPILE_LEVEL does nothing at all: no argument, tag or condition
\* is evaluated, LogDispatch is not called, nothing is initialised lazily and
\* no record reaches a backend; a call site at or above the compile level
\* calls LogDispatch (a conditional one when its condition holds).
C15_CompiledOutSitesDoNothing ==
  \A t \in Threads :
    th[t].site \in {"LOG", "LOG_TAG", "LOG_IF"}
    => IF th[t].lv < compile_level
       THEN /\ th[t].op = "NoOp" /\ th[t].pc = "ret"
            /\ th[t].evald = {}
            /\ ~th[t].lazy
            /\ th[t].got = {}
            /\ BackendState = snap
       ELSE (th[t].site \in {"LOG", "LOG_TAG"} \/ th[t].cond)
            => /\ th[t].op = "LogDispatch"
               /\ "args" \in th[t].evald

C15_Witness ==
  \E t \in Threads :
    /\ th[t].site = "LOG_TAG" /\ th[t].lv = kError /\ compile_level = kFatal
    /\ th[t].pc = "ret"
    /\ lastOp = "Shutdown" /\ inits > 0
    /\ ~inited[backend]

\* C16: a LOG_*_IF(cond, ...) call site whose condition is false dispatches
\* nothing: no record is emitted and the initialisation state and the
\* configuration stay as they are (nothing is initialised lazily); with a true
\* condition it does what the LOG_* call site of the same severity does.
C16_ConditionalSite ==
  [][\A t \in Threads :
       (th[t].pc = "idle" /\ th'[t].site = "LOG_IF" /\ Expanded(th'[t].lv))
       => IF th'[t].cond
          THEN [th'[t] EXCEPT !.site = "LOG", !.evald = {"args"}]
                 = [DispatchCall(t, th'[t].lv) EXCEPT !.site = "LOG",
                                                      !.evald = {"args"}]
          ELSE /\ th'[t].op = "NoOp" /\ th'[t].pc = "ret"
               /\ th'[t].got = {} /\ ~th'[t].lazy
               /\ "args" \notin th'[t].evald
               /\ UNCHANGED <<inited, cfg_, logger, cat_, zenv, out>>]_vars

C16_Witness ==
  \E t \in Threads :
    /\ th[t].site = "LOG_IF" /\ ~th[t].cond /\ Expanded(th[t].lv)
    /\ th[t].pc = "ret"
    /\ inits = 0 /\ ~inited[backend]

\* C17: under fair scheduling every Log call that any of the concurrent
\* threads has started returns in the end: the fallback lock is released on
\* every path, so no thread waits for it for ever.
C17_LogCallReturns ==
  \A t \in Threads : (th[t].op = "LogDispatch") ~> (th[t].pc = "idle")

C17_Witness ==
  \E t, u \in Threads :
    /\ t # u
    /\ th[t].pc = "fb_lock" /\ th[t].op = "LogDispatch"
    /\ th[u].pc = "fb_unlock" /\ mtx_ = u

\* the record of a LogDispatch call reached a destination
Emitted(t) == Returning(t, "LogDispatch") /\ th[t].got # {}

\* the fallback backend drops a record for its severity only
FallbackDropsByLevelOnly(t) ==
  (backend = "fallback" /\ Returning(t, "LogDispatch"))
  => (("console" \in th[t].got) <=> (th[t].lv >= cfg_["fallback"].console_level))

\* C18: a record whose formatted message is longer than the maximum message
\* length is still emitted, with its message cut to the first
\* LOGHELPER_MAX_MSG_LEN - 1 characters; a record whose message fits is
\* emitted unchanged; no message length makes Log fail or drop the record.
C18_CutToMaxMsgLen ==
  \A t \in Threads :
    /\ proc = "running"
    /\ FallbackDropsByLevelOnly(t)
    /\ Emitted(t)
       => th[t].sent = (IF th[t].msgLen > LOGHELPER_MAX_MSG_LEN - 1
                        THEN LOGHELPER_MAX_MSG_LEN - 1 ELSE th[t].msgLen)

\* C18, amended: the record is emitted whatever the length of its message;
\* the message is cut to its first LOGHELPER_MAX_MSG_LEN - 1 characters, and
\* left as it is when it fits, by the fallback backend always and by the
\* spdlog and zlog backends when what they write before the message fits in
\* the spare bytes of their second buffer (64 and 128); a longer tag or source
\* location cuts the message further, to the room the buffer has left.
C18_CutToMaxMsgLenOrRoom ==
  \A t \in Threads :
    /\ proc = "running"
    /\ FallbackDropsByLevelOnly(t)
    /\ Emitted(t)
       => LET prefix == IF backend = "spdlog" THEN TagPrefix(th[t].tagLen)
                        ELSE IF backend = "zlog"
                        THEN TagPrefix(th[t].tagLen) + LocPrefix(th[t].locLen)
                        ELSE 0
              spare  == IF backend = "spdlog" THEN 64
                        ELSE IF backend = "zlog" THEN 128 ELSE 0
              cut    == IF th[t].msgLen > LOGHELPER_MAX_MSG_LEN - 1
                        THEN LOGHELPER_MAX_MSG_LEN - 1 ELSE th[t].msgLen
              room   == LOGHELPER_MAX_MSG_LEN + spare - 1 - prefix
          IN IF prefix <= spare THEN th[t].sent = cut
             ELSE th[t].sent = (IF room < 0 THEN 0
                                ELSE IF cut > room THEN room ELSE cut)

C18_Witness ==
  \E t \in Threads :
    /\ Emitted(t)
    /\ backend = "spdlog"
    /\ th[t].tagLen = 62
    /\ th[t].msgLen = 2 * LOGHELPER_MAX_MSG_LEN
    /\ th[t].sent = LOGHELPER_MAX_MSG_LEN - 2

\* C20: Flush called in any state, never initialised and after Shutdown
\* included, returns normally and changes neither the initialisation state
\* nor the stored configuration of any backend.
C20_FlushChangesNothing ==
  \A t \in Threads :
    th[t].op = "Flush"
    => /\ proc = "running"
       /\ inited = snap[1]
       /\ cfg_ = snap[2]

C20_Witness ==
  \E t \in Threads :
    /\ Returning(t, "Flush")
    /\ backend = "spdlog"
    /\ lastOp = "Shutdown" /\ inits > 0
    /\ ~inited["spdlog"] /\ inited["fallback"]
    /\ cfg_["spdlog"].console_level = kError

\* C21: in a debug build LOG_ASSERT with a false condition dispatches one
\* record of severity Fatal and then aborts the process, the record before the
\* abort; with a true condition it dispatches nothing and does not abort; in a
\* build with NDEBUG it does nothing, whatever the condition (which is not
\* evaluated).
C21_AssertDispatchesThenAborts ==
  /\ [](\A t \in Threads :
          th[t].site = "LOG_ASSERT"
          => IF ~ndebug /\ ~th[t].cond
             THEN /\ th[t].op = "LogDispatch" /\ th[t].lv = kFatal
                  /\ th[t].rec = ncalls
                  /\ proc # "running" => (proc = "aborted" /\ th[t].pc = "ret")
             ELSE /\ th[t].op = "NoOp" /\ th[t].pc = "ret"
                  /\ proc = "running"
                  /\ th[t].got = {} /\ ~th[t].lazy
                  /\ ndebug => th[t].evald = {}
                  /\ BackendState = snap)
  /\ [](proc = "aborted" => \E t \in Threads : InAssert(t))
  /\ [][\A t \in Threads :
          (InAssert(t) /\ th[t].pc = "ret" /\ th'[t] # th[t]) => proc' = "aborted"]_vars

C21_Witness ==
  \E t \in Threads :
    /\ proc = "aborted"
    /\ InAssert(t) /\ th[t].pc = "ret"
    /\ th[t].lazy
    /\ th[t].got # {}
    /\ lastOp = "Shutdown"

\* C22: the lines of a configuration file that are blank, start with # or ;,
\* start with [, have no = or carry a key that is not in the table of
\* recognised keys (a recognised key in other letters is such a key) leave
\* every field as it is, and the load returns true: the file gives what it
\* gives without these lines.
C22_PassedOverLinesChangeNothing ==
  (unit.fn = "ParseIniFile" /\ unit.done /\ CanOpen(unit.path))
  => LET Applies(raw) ==
           IsSetting(raw) /\ KeyText(raw) \in {Key[k] : k \in DOMAIN Key}
     IN /\ unit.retB
        /\ unit.cfg = ParseLines(unit.cfg0,
                                 SelectSeq(FileLines(unit.path), Applies))

\* C23: for every numeric key, a value that is not a well-formed integer sets
\* the field to 0, ParseIniFile still returns true, and the other lines of the
\* file are applied as usual.
C23_MalformedNumberIsZero ==
  (unit.fn = "ParseIniFile" /\ unit.done /\ CanOpen(unit.path))
  => LET NumericKeys ==
           {Key.ConsoleLevel, Key.ConsoleLogLevel, Key.FileLevel,
            Key.FileLogLevel, Key.SyslogLevel, Key.SysLogLevel,
            Key.FileMaxSizeMB, Key.FilelogMaxSize, Key.FileMaxFiles,
            Key.FileMinFreeSpaceMB, Key.FilelogMinFreeSpace,
            Key.SyslogPort, Key.SysLogPort}
         AllDigits(v) == v # << >> /\ \A i \in 1 .. Len(v) : IsDigit(v[i])
         WellFormed(v) ==
           IF v # << >> /\ Head(v) \in {"-", "+"} THEN AllDigits(Tail(v))
           ELSE AllDigits(v)
         ps == FilePieces(FileLines(unit.path))
         Step(c, raw) ==
           IF IsSetting(raw) /\ KeyText(raw) \in NumericKeys
                /\ ~WellFormed(ValText(raw))
           THEN ApplyKey(c, KeyText(raw), <<"0">>)
           ELSE ParseLine(c, raw)
         f[i \in 0 .. Len(ps)] ==
           IF i = 0 THEN unit.cfg0 ELSE Step(f[i - 1], ps[i])
     IN unit.retB /\ unit.cfg = f[Len(ps)]

\* C24: for each of EnableConsole, EnableFile and EnableSyslog, the flag
\* becomes false exactly when the text of the value is "0", and true for
\* every other text.
C24_FlagFalseOnlyForZeroText ==
  (unit.fn = "ParseIniFile" /\ unit.done /\ CanOpen(unit.path))
  => LET ps == FilePieces(FileLines(unit.path))
         Step(c, raw) ==
           LET flag == ValText(raw) # <<"0">> IN
           IF ~IsSetting(raw) THEN ParseLine(c, raw)
           ELSE IF KeyText(raw) = Key.EnableConsole
             THEN [c EXCEPT !.enable_console = flag]
           ELSE IF KeyText(raw) = Key.EnableFile
             THEN [c EXCEPT !.enable_file = flag]
           ELSE IF KeyText(raw) = Key.EnableSyslog
             THEN [c EXCEPT !.enable_syslog = flag]
           ELSE ParseLine(c, raw)
         f[i \in 0 .. Len(ps)] ==
           IF i = 0 THEN unit.cfg0 ELSE Step(f[i - 1], ps[i])
     IN unit.cfg = f[Len(ps)]

\* C30: after ParseIniFile has returned true, console_level, file_level and
\* syslog_level each hold a value of the enumeration (0 = Trace .. 6 = Off),
\* whatever integer the file gives for the level keys, negative ones such as
\* the -1 of the legacy files and ones above 6 included.
C30_LevelsStayInEnumeration ==
  (unit.fn = "ParseIniFile" /\ unit.done /\ unit.retB)
  => /\ unit.cfg.console_level \in Level
     /\ unit.cfg.file_level \in Level
     /\ unit.cfg.syslog_level \in Level

\* C25: in the fallback backend's Log the whole sequence of a record
\* (formatting the message, taking the timestamp, writing the line) runs
\* inside one critical section of the backend's lock, so between the
\* formatting or the timestamp of one record and its write no other thread's
\* record is formatted or written.
C25_FormatAndWriteInOneSection ==
  LET Formatted(t) == th[t].pc \in {"fb_ts", "fb_lock", "fb_head", "fb_tail"}
  IN /\ \A t \in Threads : Formatted(t) => mtx_ = t
     /\ \A t, u \in Threads : t # u => ~(Formatted(t) /\ Formatted(u))

\* C25, amended: the lock covers the write of the line only.  The message is
\* formatted and the timestamp taken before the lock, in buffers of the
\* calling thread; the two writes of a line and the flush run with the lock
\* held, by one thread at a time.
C25_WriteInOneSection ==
  LET Writing(t) == th[t].pc \in {"fb_head", "fb_tail", "fb_unlock"}
  IN /\ \A t \in Threads : Writing(t) <=> mtx_ = t
     /\ \A t, u \in Threads : t # u => ~(Writing(t) /\ Writing(u))
     /\ \A t \in Threads :
          th[t].pc \in {"fb_fmt", "fb_ts", "fb_lock"} => mtx_ # t

C25_Witness ==
  \E t, u \in Threads :
    /\ th[t].rec < th[u].rec
    /\ th[t].pc = "fb_lock" /\ th[t].lv = kWarn
    /\ th[u].pc = "fb_head" /\ mtx_ = u

\* C26: once an explicit LogEngine::Init(cfg) has returned and no Shutdown
\* follows it, GetConfig() gives cfg in every later state: a logging call that
\* runs on another thread never puts the default configuration of the lazy
\* initialisation in its place.
C26_ExplicitInitIsKept ==
  (/\ lastOp \in {"Init", "InitDefault", "InitPath"}
   /\ \A t \in Threads :
        th[t].op \notin {"Init", "InitDefault", "InitPath", "Shutdown"})
  => cfg_[backend] = lastInit

\* C27: the Log body of the primary backend only runs while that backend is
\* initialised: no interleaving of a logging call on one thread with
\* LogEngine::Shutdown on another lets Log use a backend that has been shut
\* down (the default logger of spdlog released, the category of zlog
\* cleared), so a logging call never crashes the process.
C27_LogOnlyWhileInited ==
  /\ proc # "crashed"
  /\ \A t \in Threads :
       (/\ th[t].op = "LogDispatch"
        /\ th[t].pc \in {"log", "fb_fmt", "fb_ts", "fb_lock", "fb_head",
                          "fb_tail", "spd_raw", "spd_log", "z_fmt", "z_emit"})
       => /\ inited[backend]
          /\ backend = "spdlog" => logger # NullLogger
          /\ (backend = "zlog" /\ th[t].pc # "log") => cat_ # 0

\* C28: AMS_DEBUG, AMS_INFO, AMS_WARN and AMS_ERROR call sites go through the
\* call-site dispatch of the LOG_* call sites in every build: they do nothing
\* when their severity is below LOGHELPER_COMPILE_LEVEL, and otherwise they
\* initialise an uninitialised engine before the record is handed to the
\* backend.
C28_AmsSitesDispatch ==
  \A t \in Threads :
    th[t].site = "AMS"
    => IF th[t].lv < compile_level
       THEN /\ th[t].op = "NoOp" /\ th[t].pc = "ret"
            /\ th[t].evald = {} /\ ~th[t].lazy /\ th[t].got = {}
            /\ BackendState = snap
       ELSE /\ th[t].op = "LogDispatch"
            /\ proc = "running"
            /\ th[t].lazy \/ inited[backend]

\* C29: when the configuration has enable_console false, the active backend
\* writes no record to the console (stderr), whatever the severity of the
\* record and whatever the console threshold.
C29_DisabledConsoleGetsNothing ==
  \A t \in Threads :
    (th[t].op = "LogDispatch" /\ inited[backend]
       /\ ~cfg_[backend].enable_console)
    => /\ "console" \notin th[t].got
       /\ th[t].pc \notin {"fb_head", "fb_tail"}

====
